---- MODULE Spec2Model ----
(***************************************************************************)
(* CoarseChannel of the open-fixture-library model                         *)
(* (src/lib/model/CoarseChannel.js): the channel's definition              *)
(* (_jsonObject), its lazily filled cache (_cache) and the derived         *)
(* properties computed from them; and the fixture features of              *)
(* src/lib/fixture-features/fine-positions.js, computed from the modes     *)
(* of the fixture the channel is associated to (_fixture).                 *)
(*                                                                         *)
(* A JavaScript object is a function whose DOMAIN is the set of keys that  *)
(* are `in` the object.  A getter is an operator from (definition, cache)  *)
(* to the cache it leaves behind, a thrown error and a returned value.     *)
(***************************************************************************)
EXTENDS Integers, Sequences, FiniteSets, TLC

\* Largest number of fine channel aliases of a generated definition.
MaxFine == 1
\* Largest length of a generated capability list.
MaxCaps == 3
\* Largest resolution scaleDmxValue is applied to on its own.
MaxScaleResolution == 3
\* Largest number of modes of a generated fixture.
MaxModes == 2
\* Largest number of channels of a generated mode.
MaxModeLength == 3

VARIABLES
  jsonObject,  \* this._jsonObject: the channel data from the fixture's JSON
  cache,       \* this._cache: the derived properties computed so far
  result,      \* the call made last: its name, argument, error and value
  fixture      \* this._fixture: the fixture the channel is associated to

vars == <<jsonObject, cache, result, fixture>>

----------------------------------------------------------------------------
\* Objects

EmptyObject == [k \in {} |-> TRUE]

Has(obj, k) == k \in DOMAIN obj

Put(obj, k, v) == [x \in DOMAIN obj \cup {k} |-> IF x = k THEN v ELSE obj[x]]

Field(k, v) == [x \in {k} |-> v]

Merge(a, b) == [x \in DOMAIN a \cup DOMAIN b |-> IF x \in DOMAIN a THEN a[x] ELSE b[x]]

Range(s) == {s[i] : i \in DOMAIN s}

\* What a call leaves behind: the cache, the error thrown ("none" when it
\* returns) and the value returned.
Return(c, v) == [cache |-> c, err |-> "none", out |-> v]

Throw(c, e) == [cache |-> c, err |-> e, out |-> 0]

----------------------------------------------------------------------------
\* Numbers and value expressions

RECURSIVE Pow256(_)
Pow256(n) == IF n <= 0 THEN 1 ELSE 256 * Pow256(n - 1)

\* A JSON value of defaultValue / highlightValue: a number, or a string
\* described by what the entity parser makes of it.
IntegerValue(n) == [kind |-> "integer", number |-> n]

PercentString(p) == [kind |-> "percent", number |-> p]

UnparseableString == [kind |-> "unparseable", number |-> 0]

EmptyString == [kind |-> "empty", number |-> 0]

\* Number.isInteger(value)
NumberIsInteger(v) == v.kind = "integer"

\* JavaScript falsiness of a value (`value || 0`): the number 0 and "".
IsFalsy(v) == (v.kind = "integer" /\ v.number = 0) \/ v.kind = "empty"

\* Entity.createFromEntityString(string): the strings that match the
\* <number><unit> grammar; every other string is a parse error.
EntityStringParses(v) == v.kind = "percent"

\* Entity.createFromEntityString(string).number
EntityNumber(v) == v.number

\* A resolution as a caller may pass it: NaN, or a multiple of one half.
Resolution(n) == [nan |-> FALSE, halves |-> 2 * n]

HalfResolution(h) == [nan |-> FALSE, halves |-> h]

NotANumber == [nan |-> TRUE, halves |-> 0]

NoArgument == [nan |-> TRUE, halves |-> 0 - 1]

----------------------------------------------------------------------------
\* scaleDmxValue (../scale-dmx-values.js): the value as big-endian bytes;
\* scaling up appends zero low-order bytes, scaling down drops low-order
\* bytes.

DmxValueToBytes(dmxValue, resolution) ==
  [i \in 1..resolution |-> (dmxValue \div Pow256(resolution - i)) % 256]

RECURSIVE BytesToDmxValue(_)
BytesToDmxValue(bytes) ==
  IF Len(bytes) = 0 THEN 0
  ELSE 256 * BytesToDmxValue(SubSeq(bytes, 1, Len(bytes) - 1)) + bytes[Len(bytes)]

\* Scaling up by repeating the last byte instead of appending zero bytes.
scaleDmxValueRepeatingLastByte(dmxValue, currentResolution, desiredResolution) ==
  LET bytes == [i \in 1..currentResolution |->
                  (dmxValue \div Pow256(currentResolution - i)) % 256]
      scaled == [i \in 1..desiredResolution |->
                   IF i <= currentResolution THEN bytes[i] ELSE bytes[currentResolution]]
  IN BytesToDmxValue(scaled)

scaleDmxValue(dmxValue, currentResolution, desiredResolution) ==
  LET bytes == DmxValueToBytes(dmxValue, currentResolution)
      scaled == [i \in 1..desiredResolution |->
                   IF i <= currentResolution THEN bytes[i] ELSE 0]
  IN BytesToDmxValue(scaled)

----------------------------------------------------------------------------
\* CoarseChannel: resolutions

RESOLUTION_8BIT == 1

RESOLUTION_16BIT == 2

RESOLUTION_24BIT == 3

fineChannelAliases(j) ==
  IF Has(j, "fineChannelAliases") THEN j.fineChannelAliases ELSE <<>>

maxResolution(j) == 1 + Len(fineChannelAliases(j))

\* ensureProperResolution without the check r % 1 !== 0.
ensureProperResolutionThrowsIgnoringFraction(j, r) ==
  IF r.nan THEN TRUE
  ELSE \/ r.halves > 2 * (1 + Len(IF Has(j, "fineChannelAliases") THEN j.fineChannelAliases ELSE <<>>))
       \/ r.halves < 2

\* The condition under which ensureProperResolution throws its RangeError:
\* r > maxResolution || r < RESOLUTION_8BIT || r % 1 !== 0.  Every
\* comparison with NaN is false and NaN % 1 is NaN, which is !== 0.
ensureProperResolutionThrows(j, r) ==
  IF r.nan THEN TRUE
  ELSE \/ r.halves > 2 * maxResolution(j)
       \/ r.halves < 2 * RESOLUTION_8BIT
       \/ r.halves % 2 # 0

ensureProperResolution(j, c, r) ==
  IF ensureProperResolutionThrows(j, r) THEN Throw(c, "RangeError") ELSE Return(c, 0)

resolutionStringToResolution(s) ==
  CASE s = "8bit" -> RESOLUTION_8BIT
    [] s = "16bit" -> RESOLUTION_16BIT
    [] s = "24bit" -> RESOLUTION_24BIT

dmxValueResolution(j, c) ==
  IF Has(c, "dmxValueResolution") THEN Return(c, c.dmxValueResolution)
  ELSE LET value == IF Has(j, "dmxValueResolution")
                    THEN resolutionStringToResolution(j.dmxValueResolution)
                    ELSE maxResolution(j)
       IN Return(Put(c, "dmxValueResolution", value), value)

maxDmxBound(j) == Pow256(maxResolution(j)) - 1

hasDefaultValue(j) == Has(j, "defaultValue")

hasHighlightValue(j) == Has(j, "highlightValue")

\* The percentage taken of 256^resolution instead of 256^resolution - 1.
PercentageOfPowerOf256(percent, maxBound) == (percent * (maxBound + 1)) \div 100

\* Math.floor(percentage / 100 * maxBound).  For the percentages and bounds
\* used here the double-precision product floors to the exact quotient.
PercentageOf(percent, maxBound) == (percent * maxBound) \div 100

\* The index of the per-resolution table a proper resolution selects.
ResolutionIndex(r) == r.halves \div 2

\* getDefaultValueWithResolution taking a string it cannot parse as 0.
getDefaultValueWithResolutionSwallowingParseError(j, c, desiredResolution) ==
  IF ensureProperResolutionThrows(j, desiredResolution) THEN Throw(c, "RangeError")
  ELSE IF Has(c, "defaultValuePerResolution")
  THEN Return(c, c.defaultValuePerResolution[ResolutionIndex(desiredResolution)])
  ELSE
    LET given == IF hasDefaultValue(j) /\ (NumberIsInteger(j.defaultValue) \/ EntityStringParses(j.defaultValue))
                 THEN j.defaultValue ELSE IntegerValue(0)
        c1 == dmxValueResolution(j, c).cache
        declared == c1.dmxValueResolution
        rawDefaultValue ==
          IF NumberIsInteger(given) THEN given.number
          ELSE PercentageOf(EntityNumber(given), Pow256(declared) - 1)
        table == [i \in 1..maxResolution(j) |-> scaleDmxValue(rawDefaultValue, declared, i)]
    IN Return(Put(c1, "defaultValuePerResolution", table),
              table[ResolutionIndex(desiredResolution)])

\* scaleDmxValue called with currentResolution and desiredResolution swapped.
getDefaultValueWithResolutionScalingBackwards(j, c, desiredResolution) ==
  IF ensureProperResolutionThrows(j, desiredResolution) THEN Throw(c, "RangeError")
  ELSE IF Has(c, "defaultValuePerResolution")
  THEN Return(c, c.defaultValuePerResolution[ResolutionIndex(desiredResolution)])
  ELSE
    LET given == IF hasDefaultValue(j) /\ ~IsFalsy(j.defaultValue)
                 THEN j.defaultValue ELSE IntegerValue(0)
    IN IF ~NumberIsInteger(given) /\ ~EntityStringParses(given)
       THEN Throw(c, "ParseError")
       ELSE
         LET c1 == dmxValueResolution(j, c).cache
             declared == c1.dmxValueResolution
             rawDefaultValue ==
               IF NumberIsInteger(given) THEN given.number
               ELSE PercentageOf(EntityNumber(given), Pow256(declared) - 1)
             table == [i \in 1..maxResolution(j) |->
                         scaleDmxValue(rawDefaultValue, i, declared)]
         IN Return(Put(c1, "defaultValuePerResolution", table),
                   table[ResolutionIndex(desiredResolution)])

getDefaultValueWithResolution(j, c, desiredResolution) ==
  IF ensureProperResolutionThrows(j, desiredResolution) THEN Throw(c, "RangeError")
  ELSE IF Has(c, "defaultValuePerResolution")
  THEN Return(c, c.defaultValuePerResolution[ResolutionIndex(desiredResolution)])
  ELSE
    LET given == IF hasDefaultValue(j) /\ ~IsFalsy(j.defaultValue)
                 THEN j.defaultValue ELSE IntegerValue(0)
    IN IF ~NumberIsInteger(given) /\ ~EntityStringParses(given)
       THEN Throw(c, "ParseError")
       ELSE
         LET c1 == dmxValueResolution(j, c).cache
             declared == c1.dmxValueResolution
             rawDefaultValue ==
               IF NumberIsInteger(given) THEN given.number
               ELSE PercentageOf(EntityNumber(given), Pow256(declared) - 1)
             table == [i \in 1..maxResolution(j) |->
                         scaleDmxValue(rawDefaultValue, declared, i)]
         IN Return(Put(c1, "defaultValuePerResolution", table),
                   table[ResolutionIndex(desiredResolution)])

getHighlightValueWithResolution(j, c, desiredResolution) ==
  IF ensureProperResolutionThrows(j, desiredResolution) THEN Throw(c, "RangeError")
  ELSE IF Has(c, "highlightValuePerResolution")
  THEN Return(c, c.highlightValuePerResolution[ResolutionIndex(desiredResolution)])
  ELSE
    LET isInteger == hasHighlightValue(j) /\ NumberIsInteger(j.highlightValue)
        \* this.dmxValueResolution is read before the string is parsed
        c1 == IF isInteger THEN c ELSE dmxValueResolution(j, c).cache
    IN IF ~isInteger /\ hasHighlightValue(j) /\ ~EntityStringParses(j.highlightValue)
       THEN Throw(c1, "ParseError")
       ELSE
         LET c2 == dmxValueResolution(j, c1).cache
             declared == c2.dmxValueResolution
             maxDmxBoundInResolution == Pow256(declared) - 1
             rawHighlightValue ==
               IF isInteger THEN j.highlightValue.number
               ELSE IF hasHighlightValue(j)
               THEN PercentageOf(EntityNumber(j.highlightValue), maxDmxBoundInResolution)
               ELSE maxDmxBoundInResolution
             table == [i \in 1..maxResolution(j) |->
                         scaleDmxValue(rawHighlightValue, declared, i)]
         IN Return(Put(c2, "highlightValuePerResolution", table),
                   table[ResolutionIndex(desiredResolution)])

\* get defaultValue / get highlightValue: the value in the finest resolution.
defaultValue(j, c) == getDefaultValueWithResolution(j, c, Resolution(maxResolution(j)))

highlightValue(j, c) == getHighlightValueWithResolution(j, c, Resolution(maxResolution(j)))

----------------------------------------------------------------------------
\* Capability (./Capability.js): the record of one capability and what a
\* Capability object exposes of it.

\* new Capability(jsonObject, resolution, channel)
NewCapability(capabilityData, resolution) ==
  [data |-> capabilityData, resolution |-> resolution]

CapabilityType(cap) == cap.data.type

\* The wheels a capability references, in order; "null" is a reference
\* the fixture does not resolve to a wheel.
CapabilityWheels(cap) == cap.data.wheels

CapabilityShutterEffect(cap) == cap.data.shutterEffect

CapabilityIsStep(cap) == cap.data.isStep

CapabilityIsInverted(cap) == cap.data.isInverted

CapabilityColor(cap) == cap.data.color

\* helpWanted !== null
CapabilityHelpWanted(cap) == cap.data.helpWanted

\* The switch mapping, alias -> target channel key; {} when none is declared.
CapabilitySwitchChannels(cap) == cap.data.switchChannels

\* cap.canCrossfadeTo(next): the same effect, and the boundary value of cap
\* continues into next.
CapabilityCanCrossfadeTo(cap, next) ==
  CapabilityType(cap) = CapabilityType(next) /\ cap.data.fadesToNext

\* Object.keys(object): the keys in the order of the JSON.
KeyOrder == <<"a", "b">>

ObjectKeys(object) == SelectSeq(KeyOrder, LAMBDA k : k \in DOMAIN object)

----------------------------------------------------------------------------
\* CoarseChannel: capabilities and the properties derived from them

capabilities(j, c) ==
  IF Has(c, "capabilities") THEN Return(c, c.capabilities)
  ELSE
    LET c1 == dmxValueResolution(j, c).cache
        declared == c1.dmxValueResolution
        value ==
          IF Has(j, "capability")
          THEN <<NewCapability(
                   Merge(j.capability, Field("dmxRange", <<0, Pow256(declared) - 1>>)),
                   declared)>>
          ELSE [i \in DOMAIN j.capabilities |-> NewCapability(j.capabilities[i], declared)]
    IN Return(Put(c1, "capabilities", value), value)

\* channelTypeConstraints, in the order of Object.keys: the channel type,
\* the required capability types and the name of the predicate ("" when
\* the entry is a plain array).
channelTypeConstraints == <<
  [type |-> "Single Color", required |-> {"ColorIntensity"}, predicate |-> ""],
  [type |-> "Multi-Color", required |-> {"ColorPreset", "WheelSlot"}, predicate |-> "Multi-Color"],
  [type |-> "Pan", required |-> {"Pan", "PanContinuous"}, predicate |-> ""],
  [type |-> "Tilt", required |-> {"Tilt", "TiltContinuous"}, predicate |-> ""],
  [type |-> "Focus", required |-> {"Focus"}, predicate |-> ""],
  [type |-> "Zoom", required |-> {"Zoom"}, predicate |-> ""],
  [type |-> "Iris", required |-> {"Iris", "IrisEffect"}, predicate |-> ""],
  [type |-> "Gobo", required |-> {"WheelSlot", "WheelShake"}, predicate |-> "Gobo"],
  [type |-> "Prism", required |-> {"Prism"}, predicate |-> ""],
  [type |-> "Color Temperature", required |-> {"ColorTemperature"}, predicate |-> ""],
  [type |-> "Effect",
   required |-> {"Effect", "EffectParameter", "Frost", "FrostEffect", "SoundSensitivity", "WheelSlot"},
   predicate |-> ""],
  [type |-> "Strobe", required |-> {"ShutterStrobe"}, predicate |-> "Strobe"],
  [type |-> "Shutter",
   required |-> {"ShutterStrobe", "BladeInsertion", "BladeRotation", "BladeSystemRotation"},
   predicate |-> ""],
  [type |-> "Fog", required |-> {"Fog", "FogOutput", "FogType"}, predicate |-> ""],
  [type |-> "Speed",
   required |-> {"StrobeSpeed", "StrobeDuration", "PanTiltSpeed", "EffectSpeed", "EffectDuration",
                 "BeamAngle", "BeamPosition", "PrismRotation", "Rotation", "Speed", "Time",
                 "WheelSlotRotation", "WheelRotation", "WheelShake"},
   predicate |-> ""],
  [type |-> "Maintenance", required |-> {"Maintenance"}, predicate |-> ""],
  [type |-> "Intensity", required |-> {"Intensity", "Generic"}, predicate |-> ""],
  [type |-> "NoFunction", required |-> {"NoFunction"}, predicate |-> ""] >>

\* The predicates of the table, over the channel's capability list.
MultiColorPredicate(caps) ==
  \A i \in DOMAIN caps :
    \/ CapabilityType(caps[i]) # "WheelSlot"
    \/ /\ Len(CapabilityWheels(caps[i])) > 0
       /\ CapabilityWheels(caps[i])[1] # "null"
       /\ CapabilityWheels(caps[i])[1] = "Color"

GoboPredicate(caps) ==
  \A i \in DOMAIN caps :
    \A w \in DOMAIN CapabilityWheels(caps[i]) :
      CapabilityWheels(caps[i])[w] # "null" /\ CapabilityWheels(caps[i])[w] = "Gobo"

StrobePredicate(caps) ==
  \E i \in DOMAIN caps :
    /\ CapabilityType(caps[i]) = "ShutterStrobe"
    /\ CapabilityShutterEffect(caps[i]) \notin {"Open", "Closed"}

PredicateFulfilled(constraints, caps) ==
  CASE constraints.predicate = "" -> TRUE
    [] constraints.predicate = "Multi-Color" -> MultiColorPredicate(caps)
    [] constraints.predicate = "Gobo" -> GoboPredicate(caps)
    [] constraints.predicate = "Strobe" -> StrobePredicate(caps)

\* The callback of types.find in get type.
TypeMatches(constraints, caps) ==
  LET requiredCapTypeUsed ==
        \E i \in DOMAIN caps : CapabilityType(caps[i]) \in constraints.required
  IN requiredCapTypeUsed /\ PredicateFulfilled(constraints, caps)

\* The scan that takes the first entry with a required type used and does
\* not evaluate its predicate.
RECURSIVE FindTypeIgnoringPredicate(_, _)
FindTypeIgnoringPredicate(caps, index) ==
  IF index > Len(channelTypeConstraints) THEN "Unknown"
  ELSE IF \E i \in DOMAIN caps :
            CapabilityType(caps[i]) \in channelTypeConstraints[index].required
  THEN channelTypeConstraints[index].type
  ELSE FindTypeIgnoringPredicate(caps, index + 1)

\* types.find(...) || `Unknown`, scanning from entry `index`.
RECURSIVE FindType(_, _)
FindType(caps, index) ==
  IF index > Len(channelTypeConstraints) THEN "Unknown"
  ELSE IF TypeMatches(channelTypeConstraints[index], caps)
  THEN channelTypeConstraints[index].type
  ELSE FindType(caps, index + 1)

type(j, c) ==
  IF Has(c, "type") THEN Return(c, c.type)
  ELSE LET c1 == capabilities(j, c).cache
           value == FindType(c1.capabilities, 1)
       IN Return(Put(c1, "type", value), value)

\* caps.find(cap => cap.type === `ColorIntensity`), scanning from `index`.
RECURSIVE FindColor(_, _)
FindColor(caps, index) ==
  IF index > Len(caps) THEN "null"
  ELSE IF CapabilityType(caps[index]) = "ColorIntensity"
  THEN CapabilityColor(caps[index])
  ELSE FindColor(caps, index + 1)

color(j, c) ==
  IF Has(c, "color") THEN Return(c, c.color)
  ELSE LET c1 == capabilities(j, c).cache
           value == FindColor(c1.capabilities, 1)
       IN Return(Put(c1, "color", value), value)

\* isInverted without the test proportionalCaps.length > 0.
isInvertedWithoutLengthTest(j, c) ==
  IF Has(c, "isInverted") THEN Return(c, c.isInverted)
  ELSE LET c1 == capabilities(j, c).cache
           proportionalCaps == SelectSeq(c1.capabilities, LAMBDA cap : ~CapabilityIsStep(cap))
           value == \A i \in DOMAIN proportionalCaps : CapabilityIsInverted(proportionalCaps[i])
       IN Return(Put(c1, "isInverted", value), value)

isInverted(j, c) ==
  IF Has(c, "isInverted") THEN Return(c, c.isInverted)
  ELSE LET c1 == capabilities(j, c).cache
           proportionalCaps == SelectSeq(c1.capabilities, LAMBDA cap : ~CapabilityIsStep(cap))
           value == /\ Len(proportionalCaps) > 0
                    /\ \A i \in DOMAIN proportionalCaps : CapabilityIsInverted(proportionalCaps[i])
       IN Return(Put(c1, "isInverted", value), value)

isConstant(j) == Has(j, "constant") /\ j.constant

\* canCrossfade without the test that some capability is not a step.
canCrossfadeWithoutStepTest(j, c) ==
  IF Has(c, "canCrossfade") THEN Return(c, c.canCrossfade)
  ELSE
    LET c1 == capabilities(j, c).cache
        caps == c1.capabilities
    IN IF Len(caps) = 1
       THEN LET c2 == IF isConstant(j) THEN c1 ELSE type(j, c1).cache
                value == ~isConstant(j) /\ c2.type # "NoFunction"
            IN Return(Put(c2, "canCrossfade", value), value)
       ELSE LET value ==
                  \A index \in DOMAIN caps :
                    \/ index + 1 = Len(caps) + 1
                    \/ CapabilityCanCrossfadeTo(caps[index], caps[index + 1])
            IN Return(Put(c1, "canCrossfade", value), value)

canCrossfade(j, c) ==
  IF Has(c, "canCrossfade") THEN Return(c, c.canCrossfade)
  ELSE
    LET c1 == capabilities(j, c).cache
        caps == c1.capabilities
    IN IF Len(caps) = 1
       THEN \* !this.isConstant && this.type !== `NoFunction`: type is read
            \* only when the channel is not constant
            LET c2 == IF isConstant(j) THEN c1 ELSE type(j, c1).cache
                value == ~isConstant(j) /\ c2.type # "NoFunction"
            IN Return(Put(c2, "canCrossfade", value), value)
       ELSE
            LET value ==
                  /\ \A index \in DOMAIN caps :
                       \/ index + 1 = Len(caps) + 1
                       \/ CapabilityCanCrossfadeTo(caps[index], caps[index + 1])
                  /\ \E index \in DOMAIN caps : ~CapabilityIsStep(caps[index])
            IN Return(Put(c1, "canCrossfade", value), value)

\* The aliases collected from every capability's switch mapping.
switchingChannelAliasesOfAllCapabilities(j, c) ==
  IF Has(c, "switchingChannelAliases") THEN Return(c, c.switchingChannelAliases)
  ELSE LET c1 == capabilities(j, c).cache
       IN IF Len(c1.capabilities) = 0
          THEN Throw(c1, "TypeError")
          ELSE LET value ==
                     SelectSeq(KeyOrder,
                       LAMBDA k : \E i \in DOMAIN c1.capabilities :
                                    k \in DOMAIN CapabilitySwitchChannels(c1.capabilities[i]))
               IN Return(Put(c1, "switchingChannelAliases", value), value)

switchingChannelAliases(j, c) ==
  IF Has(c, "switchingChannelAliases") THEN Return(c, c.switchingChannelAliases)
  ELSE LET c1 == capabilities(j, c).cache
       IN IF Len(c1.capabilities) = 0
          THEN Throw(c1, "TypeError")   \* this.capabilities[0] is undefined
          ELSE LET value == ObjectKeys(CapabilitySwitchChannels(c1.capabilities[1]))
               IN Return(Put(c1, "switchingChannelAliases", value), value)

\* new SwitchingChannel(alias, triggerChannel)
NewSwitchingChannel(alias) == [key |-> alias]

\* The sequence without the entries that occurred before.
RECURSIVE Unique(_)
Unique(s) ==
  IF Len(s) = 0 THEN <<>>
  ELSE LET front == Unique(SubSeq(s, 1, Len(s) - 1))
           last == s[Len(s)]
       IN IF last \in Range(front) THEN front ELSE Append(front, last)

\* SwitchingChannel.switchToChannelKeys (./SwitchingChannel.js): the keys
\* the capabilities of the trigger channel map this alias to.
SwitchingChannelSwitchToChannelKeys(switchingChannel, caps) ==
  LET declaring == SelectSeq(caps,
                     LAMBDA cap : switchingChannel.key \in DOMAIN CapabilitySwitchChannels(cap))
  IN Unique([i \in DOMAIN declaring |->
               CapabilitySwitchChannels(declaring[i])[switchingChannel.key]])

switchingChannels(j, c) ==
  IF Has(c, "switchingChannels") THEN Return(c, c.switchingChannels)
  ELSE LET aliases == switchingChannelAliases(j, c)
       IN IF aliases.err # "none" THEN aliases
          ELSE LET value == [i \in DOMAIN aliases.out |-> NewSwitchingChannel(aliases.out[i])]
               IN Return(Put(aliases.cache, "switchingChannels", value), value)

\* array.flatMap(f), from entry `index` on.
RECURSIVE FlatMapSwitchToChannelKeys(_, _, _)
FlatMapSwitchToChannelKeys(channels, caps, index) ==
  IF index > Len(channels) THEN <<>>
  ELSE SwitchingChannelSwitchToChannelKeys(channels[index], caps)
         \o FlatMapSwitchToChannelKeys(channels, caps, index + 1)

switchToChannelKeys(j, c) ==
  IF Has(c, "switchToChannelKeys") THEN Return(c, c.switchToChannelKeys)
  ELSE LET channels == switchingChannels(j, c)
       IN IF channels.err # "none" THEN channels
          ELSE LET c1 == capabilities(j, channels.cache).cache
                   value == FlatMapSwitchToChannelKeys(channels.out, c1.capabilities, 1)
               IN Return(Put(c1, "switchToChannelKeys", value), value)

isHelpWanted(j, c) ==
  IF Has(c, "isHelpWanted") THEN Return(c, c.isHelpWanted)
  ELSE LET c1 == capabilities(j, c).cache
           value == \E i \in DOMAIN c1.capabilities : CapabilityHelpWanted(c1.capabilities[i])
       IN Return(Put(c1, "isHelpWanted", value), value)

----------------------------------------------------------------------------
\* The definitions and arguments the channel is exercised with

\* fineChannelAliases: absent, or the aliases 1..n of the fine channels.
FineChannelAliasesFields ==
  {EmptyObject} \cup {Field("fineChannelAliases", [i \in 1..n |-> i]) : n \in 1..MaxFine}

DmxValueResolutionFields ==
  {EmptyObject} \cup {Field("dmxValueResolution", s) : s \in {"8bit", "16bit", "24bit"}}

DefaultValueFields ==
  {EmptyObject} \cup
  {Field("defaultValue", v) :
     v \in {IntegerValue(0), IntegerValue(200), PercentString(50), PercentString(100),
            UnparseableString, EmptyString}}

HighlightValueFields ==
  {EmptyObject} \cup
  {Field("highlightValue", v) :
     v \in {IntegerValue(200), PercentString(50), UnparseableString, EmptyString}}

ConstantFields == {EmptyObject} \cup {Field("constant", b) : b \in BOOLEAN}

BaseCapability ==
  [type |-> "Intensity", wheels |-> <<>>, shutterEffect |-> "", isStep |-> FALSE,
   isInverted |-> FALSE, fadesToNext |-> FALSE, switchChannels |-> EmptyObject,
   helpWanted |-> FALSE, color |-> ""]

\* Capabilities that differ in what the type table reads.
TypedCapability(t, wheels, shutterEffect) ==
  [BaseCapability EXCEPT !.type = t, !.wheels = wheels, !.shutterEffect = shutterEffect,
                         !.isStep = TRUE]

TypeCapabilities ==
  {TypedCapability("WheelSlot", <<"Gobo">>, ""),
   TypedCapability("WheelSlot", <<"Color">>, ""),
   TypedCapability("WheelSlot", <<"null">>, ""),
   TypedCapability("WheelShake", <<"Gobo">>, ""),
   TypedCapability("WheelRotation", <<"Color">>, ""),
   TypedCapability("ColorPreset", <<>>, ""),
   TypedCapability("ColorIntensity", <<>>, ""),
   TypedCapability("ShutterStrobe", <<>>, "Open"),
   TypedCapability("ShutterStrobe", <<>>, "Strobe"),
   TypedCapability("NoFunction", <<>>, ""),
   TypedCapability("Custom", <<>>, "")}

\* Capabilities that differ in isStep and isInverted.
InversionCapabilities ==
  {[BaseCapability EXCEPT !.isStep = s, !.isInverted = i] : s \in BOOLEAN, i \in BOOLEAN}

\* Capabilities that differ in what canCrossfade reads.
CrossfadeCapabilities ==
  {[BaseCapability EXCEPT !.type = t, !.isStep = s, !.fadesToNext = f] :
     t \in {"Intensity", "NoFunction"}, s \in BOOLEAN, f \in BOOLEAN}

\* Capabilities that differ in their switch mapping.
SwitchMappings ==
  {EmptyObject, Field("a", "k1"), Field("a", "k2"), Field("b", "k1"),
   Merge(Field("a", "k1"), Field("b", "k2"))}

SwitchCapabilities ==
  {[BaseCapability EXCEPT !.switchChannels = m, !.isStep = TRUE] : m \in SwitchMappings}

CapabilityLists(pool) == UNION {[1..n -> pool] : n \in 0..MaxCaps}

\* A definition with `capabilities`, or with the singular `capability`.
CapabilityFields(pool) ==
  {Field("capabilities", caps) : caps \in CapabilityLists(pool)}
    \cup {Field("capability", cap) : cap \in pool}

ValueDefinitions ==
  {Merge(Merge(Merge(a, r), Merge(d, h)), Field("capability", BaseCapability)) :
     a \in FineChannelAliasesFields, r \in DmxValueResolutionFields,
     d \in DefaultValueFields, h \in HighlightValueFields}

TypeDefinitions == CapabilityFields(TypeCapabilities)

InversionDefinitions == CapabilityFields(InversionCapabilities)

CrossfadeDefinitions ==
  {Merge(k, caps) : k \in ConstantFields, caps \in CapabilityFields(CrossfadeCapabilities)}

SwitchDefinitions == CapabilityFields(SwitchCapabilities)

\* A few whole definitions, which differ in every field.
CoreDefinitions ==
  { \* an inverted 16 bit red dimmer with a percentage default
    [fineChannelAliases |-> <<1>>, defaultValue |-> PercentString(50),
     capability |-> [BaseCapability EXCEPT !.type = "ColorIntensity", !.color = "Red",
                                           !.isInverted = TRUE]],
    \* an 8 bit gobo wheel used with a fine channel, its highlight value misspelt
    [fineChannelAliases |-> <<1>>, dmxValueResolution |-> "8bit",
     highlightValue |-> UnparseableString,
     capabilities |-> <<TypedCapability("WheelSlot", <<"Gobo">>, ""),
                        [TypedCapability("WheelSlot", <<"Gobo">>, "") EXCEPT !.helpWanted = TRUE]>>],
    \* a constant channel that switches two aliases, its default value misspelt
    [dmxValueResolution |-> "16bit", constant |-> TRUE, defaultValue |-> UnparseableString,
     highlightValue |-> PercentString(50),
     capabilities |-> <<[BaseCapability EXCEPT !.switchChannels = Merge(Field("a", "k1"), Field("b", "k2")),
                                               !.fadesToNext = TRUE],
                        [BaseCapability EXCEPT !.switchChannels = Merge(Field("a", "k2"), Field("b", "k2"))]>>] }

\* The resolutions a caller asks for: NaN, and 0, 0.5, 1, ... up to beyond
\* the largest maxResolution.
RequestedResolutions ==
  {HalfResolution(h) : h \in 0..(2 * MaxFine + 4)} \cup {NotANumber}

\* Values for scaleDmxValue: every byte 0, 1, 127 or 255.  A value of more
\* than three bytes has a top byte of at most 127, which keeps it within
\* the integers of the model checker.
RECURSIVE SampleValues(_)
SampleValues(resolution) ==
  IF resolution = 0 THEN {0}
  ELSE {top * Pow256(resolution - 1) + low :
          top \in (IF resolution > 3 THEN {0, 1, 127} ELSE {0, 1, 127, 255}),
          low \in SampleValues(resolution - 1)}

\* The scaled value is within the integers of the model checker: always so
\* up to three bytes.
ScaledValueIsRepresentable(v, from, to) ==
  to <= 3 \/ from > 3 \/ v \div Pow256(from - 1) < 128

ScaleResolutions == 1..MaxScaleResolution

----------------------------------------------------------------------------
\* The fixture (../model/Fixture.js, Mode.js, FineChannel.js): its channel
\* definitions by key and its modes, each an ordered list of channel keys

NewFixture(availableChannels, modes) ==
  [availableChannels |-> availableChannels, modes |-> modes]

\* A channel object: its class, its key, the key of its coarse channel and
\* its resolution (a fine channel's is its position among the aliases + 2,
\* counted from 0).
NewChannel(class, key, coarseChannel, resolution) ==
  [class |-> class, key |-> key, coarseChannel |-> coarseChannel, resolution |-> resolution]

\* fixture.getChannelByKey(key): the coarse channel of that key, else the
\* fine channel of that alias, else null.
getChannelByKey(f, key) ==
  IF key \in DOMAIN f.availableChannels
  THEN NewChannel("CoarseChannel", key, key, RESOLUTION_8BIT)
  ELSE IF \E c \in DOMAIN f.availableChannels :
            key \in Range(fineChannelAliases(f.availableChannels[c]))
       THEN LET c == CHOOSE k \in DOMAIN f.availableChannels :
                       key \in Range(fineChannelAliases(f.availableChannels[k]))
                aliases == fineChannelAliases(f.availableChannels[c])
                i == CHOOSE n \in DOMAIN aliases : aliases[n] = key
            IN NewChannel("FineChannel", key, c, i + 1)
       ELSE NewChannel("NullChannel", key, key, 0)

\* fineChannel.coarserChannel.key: the coarse channel for a 16 bit fine
\* channel, else the fine channel one resolution below.
coarserChannelKey(f, channel) ==
  IF channel.resolution = RESOLUTION_16BIT
  THEN channel.coarseChannel
  ELSE fineChannelAliases(f.availableChannels[channel.coarseChannel])[channel.resolution - 2]

\* mode.getChannelIndex(channelKey): the position of the key in the mode,
\* counted from 0, or -1 when the mode does not use the channel.
getChannelIndex(channelKeys, channelKey) ==
  IF \E n \in DOMAIN channelKeys : channelKeys[n] = channelKey
  THEN (CHOOSE n \in DOMAIN channelKeys : channelKeys[n] = channelKey) - 1
  ELSE 0 - 1

\* hasFeature of `Fine before coarse`; chPos counts from 0.
FineBeforeCoarse(f) ==
  \E m \in DOMAIN f.modes :
    \E n \in DOMAIN f.modes[m] :
      LET chPos == n - 1
          channel == getChannelByKey(f, f.modes[m][n])
      IN /\ channel.class = "FineChannel"
         /\ chPos < getChannelIndex(f.modes[m], channel.coarseChannel)

\* hasFeature of `Fine not-adjacent after coarse`; chPos counts from 0.
FineNotAdjacentAfterCoarse(f) ==
  \E m \in DOMAIN f.modes :
    \E n \in DOMAIN f.modes[m] :
      LET chPos == n - 1
          channel == getChannelByKey(f, f.modes[m][n])
      IN /\ channel.class = "FineChannel"
         /\ chPos > getChannelIndex(f.modes[m], coarserChannelKey(f, channel)) + 1

\* The fixture of a channel studied on its own: no channels, no modes.
DetachedFixture == NewFixture(EmptyObject, <<>>)

\* A 24 bit channel "c" with fine channels "f" and "g", and an 8 bit
\* channel "d".
FixtureChannels ==
  Merge(Field("c", Field("fineChannelAliases", <<"f", "g">>)), Field("d", EmptyObject))

ChannelKeys == {"c", "f", "g", "d"}

\* The modes: every list of 1..MaxModeLength different channel keys.
Modes ==
  {keys \in UNION {[1..n -> ChannelKeys] : n \in 1..MaxModeLength} :
     \A a \in DOMAIN keys, b \in DOMAIN keys : keys[a] = keys[b] => a = b}

Fixtures ==
  {NewFixture(FixtureChannels, modes) : modes \in UNION {[1..n -> Modes] : n \in 1..MaxModes}}

----------------------------------------------------------------------------
\* The program

\* The state after new CoarseChannel(key, jsonObject, fixture): the
\* constructor calls the setter.
ConstructedIn(j, f) ==
  /\ jsonObject = j
  /\ cache = EmptyObject
  /\ result = [op |-> "constructor", arg |-> NoArgument, err |-> "none", out |-> 0]
  /\ fixture = f

Constructed(j) == ConstructedIn(j, DetachedFixture)

\* The setter without this._cache = {}.
SetJsonObjectKeepingCache(j) ==
  /\ jsonObject' = j
  /\ cache' = cache
  /\ result' = [op |-> "set jsonObject", arg |-> NoArgument, err |-> "none", out |-> 0]
  /\ UNCHANGED fixture

\* set jsonObject(jsonObject)
SetJsonObject(j) ==
  /\ jsonObject' = j
  /\ cache' = EmptyObject
  /\ result' = [op |-> "set jsonObject", arg |-> NoArgument, err |-> "none", out |-> 0]
  /\ UNCHANGED fixture

Replace == \E j \in CoreDefinitions : SetJsonObject(j)

\* What a call gave: its name, argument, error and value.
Outcome(op, arg, call) == [op |-> op, arg |-> arg, err |-> call.err, out |-> call.out]

EnsureProperResolution ==
  \E r \in RequestedResolutions :
    LET call == ensureProperResolution(jsonObject, cache, r)
    IN /\ cache' = call.cache
       /\ result' = Outcome("ensureProperResolution", r, call)
       /\ UNCHANGED <<jsonObject, fixture>>

GetDmxValueResolution ==
  LET call == dmxValueResolution(jsonObject, cache)
  IN /\ cache' = call.cache
     /\ result' = Outcome("dmxValueResolution", NoArgument, call)
     /\ UNCHANGED <<jsonObject, fixture>>

GetDefaultValueWithResolution ==
  \E r \in RequestedResolutions :
    LET call == getDefaultValueWithResolution(jsonObject, cache, r)
    IN /\ cache' = call.cache
       /\ result' = Outcome("getDefaultValueWithResolution", r, call)
       /\ UNCHANGED <<jsonObject, fixture>>

GetHighlightValueWithResolution ==
  \E r \in RequestedResolutions :
    LET call == getHighlightValueWithResolution(jsonObject, cache, r)
    IN /\ cache' = call.cache
       /\ result' = Outcome("getHighlightValueWithResolution", r, call)
       /\ UNCHANGED <<jsonObject, fixture>>

GetDefaultValue ==
  LET call == defaultValue(jsonObject, cache)
  IN /\ cache' = call.cache
     /\ result' = Outcome("defaultValue", NoArgument, call)
     /\ UNCHANGED <<jsonObject, fixture>>

GetHighlightValue ==
  LET call == highlightValue(jsonObject, cache)
  IN /\ cache' = call.cache
     /\ result' = Outcome("highlightValue", NoArgument, call)
     /\ UNCHANGED <<jsonObject, fixture>>

GetCapabilities ==
  LET call == capabilities(jsonObject, cache)
  IN /\ cache' = call.cache
     /\ result' = Outcome("capabilities", NoArgument, call)
     /\ UNCHANGED <<jsonObject, fixture>>

GetType ==
  LET call == type(jsonObject, cache)
  IN /\ cache' = call.cache
     /\ result' = Outcome("type", NoArgument, call)
     /\ UNCHANGED <<jsonObject, fixture>>

GetColor ==
  LET call == color(jsonObject, cache)
  IN /\ cache' = call.cache
     /\ result' = Outcome("color", NoArgument, call)
     /\ UNCHANGED <<jsonObject, fixture>>

GetIsInverted ==
  LET call == isInverted(jsonObject, cache)
  IN /\ cache' = call.cache
     /\ result' = Outcome("isInverted", NoArgument, call)
     /\ UNCHANGED <<jsonObject, fixture>>

GetCanCrossfade ==
  LET call == canCrossfade(jsonObject, cache)
  IN /\ cache' = call.cache
     /\ result' = Outcome("canCrossfade", NoArgument, call)
     /\ UNCHANGED <<jsonObject, fixture>>

GetSwitchingChannelAliases ==
  LET call == switchingChannelAliases(jsonObject, cache)
  IN /\ cache' = call.cache
     /\ result' = Outcome("switchingChannelAliases", NoArgument, call)
     /\ UNCHANGED <<jsonObject, fixture>>

GetSwitchingChannels ==
  LET call == switchingChannels(jsonObject, cache)
  IN /\ cache' = call.cache
     /\ result' = Outcome("switchingChannels", NoArgument, call)
     /\ UNCHANGED <<jsonObject, fixture>>

GetSwitchToChannelKeys ==
  LET call == switchToChannelKeys(jsonObject, cache)
  IN /\ cache' = call.cache
     /\ result' = Outcome("switchToChannelKeys", NoArgument, call)
     /\ UNCHANGED <<jsonObject, fixture>>

GetIsHelpWanted ==
  LET call == isHelpWanted(jsonObject, cache)
  IN /\ cache' = call.cache
     /\ result' = Outcome("isHelpWanted", NoArgument, call)
     /\ UNCHANGED <<jsonObject, fixture>>

\* scaleDmxValue(dmxValue, currentResolution, desiredResolution) on its own
ScaleDmxValue ==
  \E from \in ScaleResolutions, to \in ScaleResolutions :
    \E v \in SampleValues(from) :
      /\ ScaledValueIsRepresentable(v, from, to)
      /\ result' = [op |-> "scaleDmxValue",
                    arg |-> [dmxValue |-> v, currentResolution |-> from, desiredResolution |-> to],
                    err |-> "none",
                    out |-> scaleDmxValue(v, from, to)]
      /\ UNCHANGED <<jsonObject, cache, fixture>>

\* The value just scaled, scaled back to the resolution it came from.
ScaleDmxValueBack ==
  /\ result.op = "scaleDmxValue"
  /\ result' = [op |-> "scaleDmxValue back",
                arg |-> result.arg,
                err |-> "none",
                out |-> scaleDmxValue(result.out, result.arg.desiredResolution,
                                      result.arg.currentResolution)]
  /\ UNCHANGED <<jsonObject, cache, fixture>>

\* The definitions a channel is constructed with; the others of
\* CoreDefinitions arrive through the setter only.
InitialDefinitions ==
  {j \in CoreDefinitions : "fineChannelAliases" \in DOMAIN j}

Init == \E j \in InitialDefinitions : Constructed(j)

Next ==
  \/ Replace
  \/ EnsureProperResolution
  \/ GetDmxValueResolution
  \/ GetDefaultValueWithResolution
  \/ GetHighlightValueWithResolution
  \/ GetDefaultValue
  \/ GetHighlightValue
  \/ GetCapabilities
  \/ GetType
  \/ GetColor
  \/ GetIsInverted
  \/ GetCanCrossfade
  \/ GetSwitchingChannelAliases
  \/ GetSwitchingChannels
  \/ GetSwitchToChannelKeys
  \/ GetIsHelpWanted

Spec == Init /\ [][Next]_vars

\* The value and resolution logic, over every combination of the value fields.
InitValues == \E j \in ValueDefinitions : Constructed(j)

NextValues ==
  \/ Replace
  \/ EnsureProperResolution
  \/ GetDmxValueResolution
  \/ GetDefaultValueWithResolution
  \/ GetHighlightValueWithResolution
  \/ GetDefaultValue
  \/ GetHighlightValue

SpecValues == InitValues /\ [][NextValues]_vars

\* The classifier, over capability lists that differ in type and wheels.
InitType == \E j \in TypeDefinitions : Constructed(j)

NextType == Replace \/ GetCapabilities \/ GetType

SpecType == InitType /\ [][NextType]_vars

\* Inversion, over capability lists that differ in isStep and isInverted.
InitInversion == \E j \in InversionDefinitions : Constructed(j)

NextInversion == Replace \/ GetCapabilities \/ GetIsInverted

SpecInversion == InitInversion /\ [][NextInversion]_vars

\* Crossfading, over constant and non-constant channels and their lists.
InitCrossfade == \E j \in CrossfadeDefinitions : Constructed(j)

NextCrossfade == Replace \/ GetType \/ GetCanCrossfade

SpecCrossfade == InitCrossfade /\ [][NextCrossfade]_vars

\* scaleDmxValue on its own, over sample values of every resolution.
NextScale == ScaleDmxValue \/ ScaleDmxValueBack

SpecScale == Init /\ [][NextScale]_vars

\* The switching channels, over capability lists that differ in their mapping.
InitSwitching == \E j \in SwitchDefinitions : Constructed(j)

NextSwitching ==
  \/ Replace
  \/ GetSwitchingChannelAliases
  \/ GetSwitchingChannels
  \/ GetSwitchToChannelKeys

SpecSwitching == InitSwitching /\ [][NextSwitching]_vars

\* The features of fine-positions.js of the fixture of channel "c".
HasFineBeforeCoarse ==
  /\ result' = Outcome("Fine before coarse", NoArgument,
                       Return(cache, FineBeforeCoarse(fixture)))
  /\ UNCHANGED <<jsonObject, cache, fixture>>

HasFineNotAdjacentAfterCoarse ==
  /\ result' = Outcome("Fine not-adjacent after coarse", NoArgument,
                       Return(cache, FineNotAdjacentAfterCoarse(fixture)))
  /\ UNCHANGED <<jsonObject, cache, fixture>>

InitFeatures == \E f \in Fixtures : ConstructedIn(f.availableChannels["c"], f)

NextFeatures == HasFineBeforeCoarse \/ HasFineNotAdjacentAfterCoarse

SpecFeatures == InitFeatures /\ [][NextFeatures]_vars

----------------------------------------------------------------------------
\* Properties

\* What the definition declares, read from the JSON alone.
DeclaredFineChannels(j) ==
  IF "fineChannelAliases" \in DOMAIN j THEN Len(j.fineChannelAliases) ELSE 0

DeclaredResolution(j) ==
  IF "dmxValueResolution" \in DOMAIN j
  THEN CASE j.dmxValueResolution = "8bit" -> 1
         [] j.dmxValueResolution = "16bit" -> 2
         [] j.dmxValueResolution = "24bit" -> 3
  ELSE 1 + DeclaredFineChannels(j)

DeclaredCapabilities(j) ==
  IF "capability" \in DOMAIN j THEN <<j.capability>> ELSE j.capabilities

\* rawValue scaled arithmetically: multiplied up or divided down by 256^n.
ScaledArithmetically(rawValue, from, to) ==
  IF to >= from THEN rawValue * Pow256(to - from) ELSE rawValue \div Pow256(from - to)

\* r is an integer in [1, maxResolution].
IsIntegerInRange(r, j) ==
  ~r.nan /\ \E n \in 1..(1 + DeclaredFineChannels(j)) : r.halves = 2 * n

\* C1: ensureProperResolution(r), getDefaultValueWithResolution(r) and
\* getHighlightValueWithResolution(r) throw a RangeError exactly when r is
\* not an integer in [1, maxResolution], maxResolution being 1 + the number
\* of fine channel aliases.
C1_RangeErrorExactlyWhenImproper ==
  result.op \in {"ensureProperResolution", "getDefaultValueWithResolution",
                 "getHighlightValueWithResolution"}
    => ((result.err = "RangeError") <=> ~IsIntegerInRange(result.arg, jsonObject))

\* A half-integer inside [1, maxResolution] is refused.
C1_Witness ==
  /\ result.op = "getHighlightValueWithResolution"
  /\ result.arg = HalfResolution(3)
  /\ DeclaredFineChannels(jsonObject) = 1
  /\ result.err = "RangeError"

\* The raw default value the definition declares, for the values the claim
\* covers: absent, an integer, a percentage.
DeclaredRawDefault(j) ==
  IF "defaultValue" \notin DOMAIN j THEN 0
  ELSE IF j.defaultValue.kind = "integer" THEN j.defaultValue.number
  ELSE (j.defaultValue.number * (Pow256(DeclaredResolution(j)) - 1)) \div 100

\* C2: a percentage default p% is floor(p/100 * (256^dmxValueResolution - 1))
\* at the declared resolution ("50%" at 16 bit is 32767), an integer default
\* is used unchanged, an absent one is 0; getDefaultValueWithResolution(r) is
\* that raw value scaled from dmxValueResolution to r.
C2_DefaultValueFromDeclaration ==
  /\ ( /\ result.op = "getDefaultValueWithResolution"
       /\ result.err = "none"
       /\ ("defaultValue" \in DOMAIN jsonObject
             => jsonObject.defaultValue.kind \in {"integer", "percent"}) )
       => result.out = ScaledArithmetically(DeclaredRawDefault(jsonObject),
                                            DeclaredResolution(jsonObject),
                                            ResolutionIndex(result.arg))
  /\ ( /\ result.op = "getDefaultValueWithResolution"
       /\ result.err = "none"
       /\ "defaultValue" \in DOMAIN jsonObject
       /\ jsonObject.defaultValue = PercentString(50)
       /\ DeclaredResolution(jsonObject) = 2
       /\ result.arg = Resolution(2) )
       => result.out = 32767

\* "50%" declared at 16 bit and read at 8 bit: 32767 truncated to 127.
C2_Witness ==
  /\ result.op = "getDefaultValueWithResolution"
  /\ result.err = "none"
  /\ "defaultValue" \in DOMAIN jsonObject
  /\ jsonObject.defaultValue = PercentString(50)
  /\ "dmxValueResolution" \in DOMAIN jsonObject
  /\ jsonObject.dmxValueResolution = "16bit"
  /\ DeclaredFineChannels(jsonObject) = 1
  /\ result.arg = Resolution(1)
  /\ result.out = 127
  /\ cache.defaultValuePerResolution = <<127, 32767>>

\* C3: without a declared highlightValue, highlightValue (the value in the
\* finest resolution) is the highest DMX value, 256^maxResolution - 1.
C3_HighlightDefaultsToMaxDmxBound ==
  ( /\ result.op = "highlightValue"
    /\ result.err = "none"
    /\ "highlightValue" \notin DOMAIN jsonObject )
    => result.out = Pow256(1 + DeclaredFineChannels(jsonObject)) - 1

\* The capability records of the definition as Capability objects.
DeclaredCapabilityObjects(j) ==
  [i \in DOMAIN DeclaredCapabilities(j) |-> NewCapability(DeclaredCapabilities(j)[i], 1)]

\* Entry i of the rule table matches the definition: some capability has
\* one of its required types and its predicate holds over the whole list.
EntryMatches(i, j) ==
  /\ \E n \in DOMAIN DeclaredCapabilities(j) :
       DeclaredCapabilities(j)[n].type \in channelTypeConstraints[i].required
  /\ PredicateFulfilled(channelTypeConstraints[i], DeclaredCapabilityObjects(j))

\* C4: the channel's type is the first entry of the rule table, in its
\* declaration order, that matches, and it is Unknown exactly when no entry
\* matches; a single WheelSlot capability referencing one Gobo wheel gives
\* Gobo, which is declared after Multi-Color and before Effect.
C4_TypeIsFirstMatch ==
  result.op = "type" =>
    /\ result.err = "none"
    /\ \/ \E i \in DOMAIN channelTypeConstraints :
            /\ EntryMatches(i, jsonObject)
            /\ \A k \in 1..(i - 1) : ~EntryMatches(k, jsonObject)
            /\ result.out = channelTypeConstraints[i].type
       \/ /\ \A i \in DOMAIN channelTypeConstraints : ~EntryMatches(i, jsonObject)
          /\ result.out = "Unknown"
    /\ (result.out = "Unknown")
         <=> (\A i \in DOMAIN channelTypeConstraints : ~EntryMatches(i, jsonObject))
    /\ ( /\ Len(DeclaredCapabilities(jsonObject)) = 1
         /\ DeclaredCapabilities(jsonObject)[1].type = "WheelSlot"
         /\ DeclaredCapabilities(jsonObject)[1].wheels = <<"Gobo">> )
         => result.out = "Gobo"
    /\ \E g, e \in DOMAIN channelTypeConstraints :
         /\ channelTypeConstraints[g].type = "Gobo"
         /\ channelTypeConstraints[e].type = "Effect"
         /\ g < e

\* A single WheelSlot capability of a Gobo wheel is classified Gobo.
C4_Witness ==
  /\ result.op = "type"
  /\ "capabilities" \in DOMAIN jsonObject
  /\ Len(jsonObject.capabilities) = 1
  /\ jsonObject.capabilities[1].type = "WheelSlot"
  /\ jsonObject.capabilities[1].wheels = <<"Gobo">>
  /\ result.out = "Gobo"

\* C5: isInverted is true exactly when the channel has a non-step
\* capability and every non-step capability is inverted; with no capability
\* or only step capabilities it is false whatever their isInverted flags.
C5_IsInverted ==
  result.op = "isInverted" =>
    LET caps == DeclaredCapabilities(jsonObject)
    IN /\ result.err = "none"
       /\ result.out = ( /\ \E n \in DOMAIN caps : ~caps[n].isStep
                         /\ \A n \in DOMAIN caps : ~caps[n].isStep => caps[n].isInverted )
       /\ (\A n \in DOMAIN caps : caps[n].isStep) => result.out = FALSE

\* Only step capabilities, all of them flagged inverted: not inverted.
C5_Witness ==
  /\ result.op = "isInverted"
  /\ Len(DeclaredCapabilities(jsonObject)) = 2
  /\ \A n \in DOMAIN DeclaredCapabilities(jsonObject) :
       /\ DeclaredCapabilities(jsonObject)[n].isStep
       /\ DeclaredCapabilities(jsonObject)[n].isInverted
  /\ result.out = FALSE

\* C6: with exactly one capability canCrossfade is true exactly when the
\* channel is not constant and its type is not NoFunction, so a channel
\* whose only capability is NoFunction cannot crossfade; with several
\* capabilities it is true exactly when every capability can crossfade to
\* the next one and at least one capability is not a step.
C6_CanCrossfade ==
  result.op = "canCrossfade" =>
    LET caps == DeclaredCapabilities(jsonObject)
        objects == DeclaredCapabilityObjects(jsonObject)
        constant == "constant" \in DOMAIN jsonObject /\ jsonObject.constant
    IN /\ result.err = "none"
       /\ Len(caps) = 1 =>
            result.out = (~constant /\ FindType(objects, 1) # "NoFunction")
       /\ (Len(caps) = 1 /\ caps[1].type = "NoFunction") => result.out = FALSE
       /\ Len(caps) > 1 =>
            result.out =
              ( /\ \A n \in 1..(Len(caps) - 1) :
                     CapabilityCanCrossfadeTo(objects[n], objects[n + 1])
                /\ \E n \in DOMAIN caps : ~caps[n].isStep )

\* Several step capabilities that each fade into the next: no crossfade.
C6_Witness ==
  /\ result.op = "canCrossfade"
  /\ Len(DeclaredCapabilities(jsonObject)) = 3
  /\ \A n \in DOMAIN DeclaredCapabilities(jsonObject) :
       /\ DeclaredCapabilities(jsonObject)[n].isStep
       /\ DeclaredCapabilities(jsonObject)[n].fadesToNext
       /\ DeclaredCapabilities(jsonObject)[n].type = "Intensity"
  /\ result.out = FALSE

\* What a channel freshly constructed with definition j gives for a call.
FreshCall(op, arg, j) ==
  CASE op = "ensureProperResolution" -> ensureProperResolution(j, EmptyObject, arg)
    [] op = "dmxValueResolution" -> dmxValueResolution(j, EmptyObject)
    [] op = "getDefaultValueWithResolution" -> getDefaultValueWithResolution(j, EmptyObject, arg)
    [] op = "getHighlightValueWithResolution" -> getHighlightValueWithResolution(j, EmptyObject, arg)
    [] op = "defaultValue" -> defaultValue(j, EmptyObject)
    [] op = "highlightValue" -> highlightValue(j, EmptyObject)
    [] op = "capabilities" -> capabilities(j, EmptyObject)
    [] op = "type" -> type(j, EmptyObject)
    [] op = "color" -> color(j, EmptyObject)
    [] op = "isInverted" -> isInverted(j, EmptyObject)
    [] op = "canCrossfade" -> canCrossfade(j, EmptyObject)
    [] op = "switchingChannelAliases" -> switchingChannelAliases(j, EmptyObject)
    [] op = "switchingChannels" -> switchingChannels(j, EmptyObject)
    [] op = "switchToChannelKeys" -> switchToChannelKeys(j, EmptyObject)
    [] op = "isHelpWanted" -> isHelpWanted(j, EmptyObject)

\* What a fresh channel with definition j stores in cache slot k.
FreshSlot(k, j) ==
  CASE k = "defaultValuePerResolution" ->
         getDefaultValueWithResolution(j, EmptyObject, Resolution(1)).cache[k]
    [] k = "highlightValuePerResolution" ->
         getHighlightValueWithResolution(j, EmptyObject, Resolution(1)).cache[k]
    [] OTHER -> FreshCall(k, NoArgument, j).cache[k]

Reads ==
  {"ensureProperResolution", "dmxValueResolution", "getDefaultValueWithResolution",
   "getHighlightValueWithResolution", "defaultValue", "highlightValue", "capabilities",
   "type", "color", "isInverted", "canCrossfade", "switchingChannelAliases",
   "switchingChannels", "switchToChannelKeys", "isHelpWanted"}

\* C7: whatever reads and replacements of the definition came before, a
\* read gives what a freshly constructed channel with the current definition
\* gives; a replacement leaves the cache empty, and everything in the cache
\* was computed from the current definition.
C7_ReadsAreFresh ==
  /\ result.op \in Reads =>
       /\ result.err = FreshCall(result.op, result.arg, jsonObject).err
       /\ result.err = "none" =>
            result.out = FreshCall(result.op, result.arg, jsonObject).out
  /\ result.op = "set jsonObject" => cache = EmptyObject
  /\ \A k \in DOMAIN cache : cache[k] = FreshSlot(k, jsonObject)

\* The target keys of a definition that only the setter installs, read
\* from a cache already filled again.
C7_Witness ==
  /\ jsonObject \in CoreDefinitions \ InitialDefinitions
  /\ result.op = "switchToChannelKeys"
  /\ result.out = <<"k1", "k2", "k2">>
  /\ "highlightValuePerResolution" \in DOMAIN cache
  /\ "type" \in DOMAIN cache

\* The keys the capabilities map the aliases of the first capability to.
KeysOfFirstAliases(caps) ==
  UNION {{caps[n].switchChannels[a] :
            a \in DOMAIN caps[1].switchChannels \cap DOMAIN caps[n].switchChannels} :
         n \in DOMAIN caps}

\* Every key any capability's switch mapping names.
KeysOfAllMappings(caps) == UNION {Range(caps[n].switchChannels) : n \in DOMAIN caps}

SwitchingReads == {"switchingChannelAliases", "switchingChannels", "switchToChannelKeys"}

\* C8 (as amended): for a channel with at least one capability, the aliases
\* are the keys of the first capability's switch mapping only, the channel
\* has a switching channel exactly when the first capability declares a
\* mapping, and switchToChannelKeys are the union, over all capabilities, of
\* the keys their mappings give for the aliases of the first capability.
C8_SwitchingFollowsFirstCapability ==
  LET caps == DeclaredCapabilities(jsonObject)
  IN /\ result.op \in SwitchingReads => (result.err = "TypeError" <=> Len(caps) = 0)
     /\ result.op \in SwitchingReads => result.err \in {"none", "TypeError"}
     /\ (result.op = "switchingChannelAliases" /\ result.err = "none")
          => Range(result.out) = DOMAIN caps[1].switchChannels
     /\ (result.op = "switchingChannels" /\ result.err = "none")
          => /\ {result.out[i].key : i \in DOMAIN result.out} = DOMAIN caps[1].switchChannels
             /\ (Len(result.out) > 0) <=> (DOMAIN caps[1].switchChannels # {})
     /\ (result.op = "switchToChannelKeys" /\ result.err = "none")
          => Range(result.out) = KeysOfFirstAliases(caps)

\* The second capability maps an alias the first one does not declare: its
\* key is not among switchToChannelKeys.
C8_Witness ==
  /\ result.op = "switchToChannelKeys"
  /\ result.err = "none"
  /\ "capabilities" \in DOMAIN jsonObject
  /\ Len(jsonObject.capabilities) = 2
  /\ DOMAIN jsonObject.capabilities[1].switchChannels = {"a"}
  /\ DOMAIN jsonObject.capabilities[2].switchChannels = {"a", "b"}
  /\ result.out = <<"k1">>

\* C8 (as claimed): switchToChannelKeys are the union over all capabilities
\* of the values of their switch mappings, and the channel has a switching
\* channel whenever some capability declares a switch mapping; the aliases
\* are read from the first capability only.
C8_UnionOverAllMappings ==
  LET caps == DeclaredCapabilities(jsonObject)
  IN /\ (result.op = "switchToChannelKeys" /\ result.err = "none")
          => Range(result.out) = KeysOfAllMappings(caps)
     /\ (result.op = "switchingChannels" /\ result.err = "none")
          => ((\E n \in DOMAIN caps : DOMAIN caps[n].switchChannels # {})
                => Len(result.out) > 0)
     /\ (result.op = "switchingChannelAliases" /\ result.err = "none")
          => Range(result.out) = DOMAIN caps[1].switchChannels

\* C9: for 1 <= from < to and a value v of `from` bytes, scale(v, from, to)
\* is v * 256^(to - from) and scaling it back down gives v again; down and
\* then up gives v back exactly when the bytes dropped were zero, so not
\* for values with non-zero low-order bytes.
C9_ScaleUpIsExactAndInvertible ==
  LET v == result.arg.dmxValue
      from == result.arg.currentResolution
      to == result.arg.desiredResolution
  IN /\ (result.op = "scaleDmxValue" /\ from < to) => result.out = v * Pow256(to - from)
     /\ (result.op = "scaleDmxValue back" /\ from < to) => result.out = v
     /\ (result.op = "scaleDmxValue back" /\ from > to)
          => ((result.out = v) <=> (v % Pow256(from - to) = 0))
     /\ (result.op = "scaleDmxValue back" /\ from > to /\ v % Pow256(from - to) # 0)
          => result.out = v - (v % Pow256(from - to))

\* 0x01FF scaled to three bytes and back.
C9_Witness ==
  /\ result.op = "scaleDmxValue back"
  /\ result.arg = [dmxValue |-> 511, currentResolution |-> 2, desiredResolution |-> 3]
  /\ result.out = 511

\* The definition's defaultValue / highlightValue is a string the entity
\* parser rejects.
DefaultIsUnparseable(j) ==
  "defaultValue" \in DOMAIN j /\ j.defaultValue.kind = "unparseable"

HighlightIsUnparseable(j) ==
  "highlightValue" \in DOMAIN j /\ j.highlightValue.kind \in {"unparseable", "empty"}

----------------------------------------------------------------------------
\* Fine channel positions

\* The fine channel keys of the fixture, each with the key of the channel
\* one resolution below it, from the declared aliases.
DeclaredCoarser(f) ==
  UNION {LET aliases == fineChannelAliases(f.availableChannels[c])
         IN {<<aliases[n], IF n = 1 THEN c ELSE aliases[n - 1]>> : n \in DOMAIN aliases} :
         c \in DOMAIN f.availableChannels}

\* C11: `Fine not-adjacent after coarse` is reported exactly when some mode
\* places a fine channel after its next-coarser channel of that same mode
\* but not directly after it; a fine channel whose next-coarser channel the
\* mode does not use never makes the feature reported.
C11_ReportedExactlyWhenAfterButNotAdjacent ==
  result.op = "Fine not-adjacent after coarse" =>
    result.out =
      (\E m \in DOMAIN fixture.modes :
         \E p \in DOMAIN fixture.modes[m], q \in DOMAIN fixture.modes[m] :
           /\ <<fixture.modes[m][p], fixture.modes[m][q]>> \in DeclaredCoarser(fixture)
           /\ p > q + 1)

----------------------------------------------------------------------------
\* Default values across resolutions

\* The declared default is an integer or a percentage, and as a raw value
\* it lies in [0, 256^dmxValueResolution - 1].
RawDefaultIsInRange(j) ==
  /\ "defaultValue" \in DOMAIN j => j.defaultValue.kind \in {"integer", "percent"}
  /\ DeclaredRawDefault(j) >= 0
  /\ DeclaredRawDefault(j) <= Pow256(DeclaredResolution(j)) - 1

\* C12: for a raw default value in [0, 256^dmxValueResolution - 1] and all
\* resolutions 1 <= r <= s <= maxResolution, the default value at r is the
\* default value at s with its s - r low-order bytes dropped,
\* floor(value(s) / 256^(s-r)), and it fits in r bytes; whether
\* dmxValueResolution is below, equal to or above maxResolution.
C12_DefaultValuesAreConsistentTruncations ==
  ( /\ result.op = "getDefaultValueWithResolution"
    /\ result.err = "none"
    /\ RawDefaultIsInRange(jsonObject) )
    => LET r == ResolutionIndex(result.arg)
           valueAt(s) ==
             getDefaultValueWithResolution(jsonObject, cache, Resolution(s)).out
       IN /\ r \in 1..(1 + DeclaredFineChannels(jsonObject))
          /\ result.out >= 0
          /\ result.out <= Pow256(r) - 1
          /\ \A s \in r..(1 + DeclaredFineChannels(jsonObject)) :
               /\ getDefaultValueWithResolution(jsonObject, cache, Resolution(s)).err = "none"
               /\ result.out = valueAt(s) \div Pow256(s - r)
          /\ \A s \in 1..r :
               valueAt(s) = result.out \div Pow256(r - s)

\* "50%" declared at 24 bit on a channel of two bytes: 8388607, read as 127
\* at 8 bit and as 32767 at 16 bit.
C12_Witness ==
  /\ result.op = "getDefaultValueWithResolution"
  /\ result.err = "none"
  /\ "defaultValue" \in DOMAIN jsonObject
  /\ jsonObject.defaultValue = PercentString(50)
  /\ "dmxValueResolution" \in DOMAIN jsonObject
  /\ jsonObject.dmxValueResolution = "24bit"
  /\ DeclaredFineChannels(jsonObject) = 1
  /\ result.arg = Resolution(1)
  /\ result.out = 127
  /\ getDefaultValueWithResolution(jsonObject, cache, Resolution(2)).out = 32767

====
